---- MODULE Spec2Model ----
(***************************************************************************)
(* Model of the Google Sheets read-through cache of hawa-be:               *)
(* SheetsCacheService (app/services/weather/sheets_cache_service.py) and   *)
(* its Fetcher, SpreadsheetService.read_from_google_sheets.                *)
(*                                                                         *)
(* Strings are sequences of one-character strings, so that the f-string    *)
(* that builds cache_key and the substring tests on str(e) are computed    *)
(* as Python computes them.                                                *)
(***************************************************************************)
EXTENDS Integers, Sequences, FiniteSets, TLC

VARIABLES
    cache,            \* SheetsCacheService._cache: cache_key -> [rows, ts]
    clock,            \* what time.time() returns now
    ticks,            \* how many times the clock has advanced
    serial,           \* TRUE: invocations run one at a time, to completion
    pc,               \* per thread: position inside get_cached_data
    spreadsheet_id,   \* per thread: argument
    worksheet_name,   \* per thread: argument
    force_refresh,    \* per thread: argument
    current_time,     \* per thread: local of line 37
    fetch_calls,      \* per thread: Fetcher calls made by the invocation
    fetched,          \* per thread: what the Fetcher answered
    status,           \* per thread: "none", "returned" or "raised"
    ret,              \* per thread: the rows returned
    err,              \* per thread: the exception raised
    storeBefore,      \* serial executions: _cache when the invocation began
    prevFallback,     \* per thread: how the previous invocation on the
                      \* same cache_key ended ("no", "fresh", "stale")
    lastFallback,     \* per cache_key: "fresh"/"stale" when the latest
                      \* invocation on it returned a fallback
    writer,           \* per cache_key: the (spreadsheet_id, worksheet_name)
                      \* whose fetch wrote the entry
    observed,         \* per thread: what lines 39-41 found in the cache
                      \* ("none", "miss", "found", "fresh", "stale", "gone")
    record,           \* field extraction: the row, a list of (column, cell)
    field_variants,   \* field extraction: the column names looked for
    default_value,    \* field extraction: the `default` argument
    extracted,        \* field extraction: which function ran and its result
    parse_input,      \* parse_numeric: the `value` argument
    expected_max,     \* parse_numeric: the bound, in thousandths
    admin_cache,      \* admin.py: the module-level _sheets_cache
    admin_out,        \* admin.py: how the latest _get_cached_sheets_data ended
    served,           \* /weather/heatmap: worksheet -> rows and time of the
                      \* latest request answered 200
    servedBefore      \* /weather/heatmap: served when the latest request began

vars == <<cache, clock, ticks, serial, pc, spreadsheet_id, worksheet_name,
          force_refresh, current_time, fetch_calls, fetched, status, ret,
          err, storeBefore, prevFallback, lastFallback, writer, observed,
          record, field_variants, default_value, extracted,
          parse_input, expected_max,
          admin_cache, admin_out, served, servedBefore>>

cacheVars == <<cache, clock, ticks, serial, pc, spreadsheet_id, worksheet_name,
               force_refresh, current_time, fetch_calls, fetched, status, ret,
               err, storeBefore, prevFallback, lastFallback, writer, observed>>

fieldVars == <<record, field_variants, default_value, extracted,
               parse_input, expected_max>>

handlerVars == <<admin_cache, admin_out, served, servedBefore>>

(***************************************************************************)
(* Bounds and input sets.                                                  *)
(***************************************************************************)
MaxTicks == 2

\* The n-th advance of the clock: 29 s, then 1 s, alternately, so that an
\* entry is met at the ages 29 (fresh), 30 and more (stale).
TickStep(n) == IF n % 2 = 0 THEN 29 ELSE 1

\* Concurrent requests read the one configured spreadsheet.
ConcSpreadsheetIds == { <<"s">> }

Threads == {"t1", "t2"}

\* The thread that serves the requests of a serial execution.
MainThread == "t1"

SpreadsheetIds == { <<"s">>, <<"s", ":", "w">> }

WorksheetNames == { <<"w">>, <<"w", ":", "w">> }

\* What worksheet.get_all_records() can answer: a list of records.
SheetRows == { <<"rowA">>, <<"rowB", "rowC">> }

Msg429 == <<"[", "4", "2", "9", "]">>

MsgQuota ==
    <<"Q", "u", "o", "t", "a", " ", "e", "x", "c", "e", "e", "d", "e", "d">>

Msg403 == <<"[", "4", "0", "3", "]">>

MsgNoCreds ==
    <<"G", "o", "o", "g", "l", "e", " ", "S", "h", "e", "e", "t", "s", " ",
      "c", "r", "e", "d", "e", "n", "t", "i", "a", "l", "s", " ",
      "n", "o", "t", " ", "f", "o", "u", "n", "d", ".">>

\* The end of str(e) of the json.JSONDecodeError (a ValueError) that
\* json.loads raises at line 54 on a credentials string broken at offset 429.
MsgJsonChar429 == <<"(", "c", "h", "a", "r", " ", "4", "2", "9", ")">>

\* The exceptions read_from_google_sheets can raise (type, str(e)).
FetcherErrors ==
    { [type |-> "APIError",   msg |-> Msg429],
      [type |-> "APIError",   msg |-> MsgQuota],
      [type |-> "APIError",   msg |-> Msg403],
      [type |-> "ValueError", msg |-> MsgNoCreds],
      [type |-> "JSONDecodeError", msg |-> MsgJsonChar429] }

NoError == [type |-> "none", msg |-> << >>]

NoRows == << >>

\* The Fetcher's answer to an invocation: nothing yet, rows, or an exception.
NotFetched == [kind |-> "none", rows |-> NoRows, e |-> NoError]

FetchedRows(raw_data) == [kind |-> "ok", rows |-> raw_data, e |-> NoError]

FetchedError(e) == [kind |-> "failed", rows |-> NoRows, e |-> e]

NoString == << >>

(***************************************************************************)
(* Pure helpers of get_cached_data.                                        *)
(***************************************************************************)
\* Python's `sub in s` on strings.
Contains(sub, s) ==
    \E i \in 1..(Len(s) - Len(sub) + 1) : SubSeq(s, i, i + Len(sub) - 1) = sub

ttl_seconds == 30

\* line 36: cache_key = f"{spreadsheet_id}:{worksheet_name}"
CacheKey(sid, ws) == sid \o <<":">> \o ws

\* Mutant: the entry expires one second early.
IsFresh_EarlyExpiry(now, cache_timestamp) ==
    now - cache_timestamp < ttl_seconds - 1

\* Mutant: an entry aged exactly ttl_seconds still counts as fresh.
IsFresh_Inclusive(now, cache_timestamp) == now - cache_timestamp <= ttl_seconds

\* Mutant: the operands of the subtraction swapped.
IsFresh_Swapped(now, cache_timestamp) == cache_timestamp - now < ttl_seconds

\* line 41: current_time - cache_timestamp < self.ttl_seconds
IsFresh(now, cache_timestamp) == now - cache_timestamp < ttl_seconds

\* Mutant: force_refresh is not looked at.
UseCache_IgnoreForce(force, c, key) == key \in DOMAIN c

\* line 39: not force_refresh and cache_key in self._cache
UseCache(force, c, key) == ~force /\ key \in DOMAIN c

\* Mutant: only the bracketed status code "[429]" is looked for.
IsRateLimit_BracketedCode(error_msg) == Contains(Msg429, error_msg)

\* line 54: "429" in error_msg or "Quota exceeded" in error_msg
IsRateLimit(error_msg) ==
    \/ Contains(<<"4", "2", "9">>, error_msg)
    \/ Contains(MsgQuota, error_msg)

\* Mutant: any failure is answered from the cache.
FallsBack_AnyError(c, key, error_msg) == key \in DOMAIN c

\* Mutant: the "Quota exceeded" phrase is not looked for.
FallsBack_NoQuota(c, key, error_msg) ==
    key \in DOMAIN c /\ Contains(<<"4", "2", "9">>, error_msg)

\* Mutant: the test `cache_key in self._cache` of line 52 is missing.
FallsBack_NoMembership(c, key, error_msg) == IsRateLimit(error_msg)

\* lines 52-54: the except branch answers from the cache
FallsBack(c, key, error_msg) == key \in DOMAIN c /\ IsRateLimit(error_msg)

\* Mutant: an existing entry gets the new rows but keeps its timestamp.
Put_KeepTimestamp(c, key, raw_data, now) ==
    [k \in DOMAIN c \cup {key} |->
        IF k = key
        THEN [rows |-> raw_data,
              ts |-> IF key \in DOMAIN c THEN c[key].ts ELSE now]
        ELSE c[k]]

\* Mutant: the cache is rebuilt around the one fetched entry.
Put_OnlyThis(c, key, raw_data, now) ==
    [k \in {key} |-> [rows |-> raw_data, ts |-> now]]

\* Mutant: a rate-limit failure with nothing to fall back on is retried.
OnFailure_Retry(c, key, error_msg) ==
    IF FallsBack(c, key, error_msg) THEN "line55"
    ELSE IF IsRateLimit(error_msg) THEN "line45" ELSE "raise"

\* lines 51-57: where the except branch goes: to the fallback of line 55 or
\* to the bare raise of line 57; the Fetcher is not called a second time.
OnFailure(c, key, error_msg) ==
    IF FallsBack(c, key, error_msg) THEN "line55" ELSE "raise"

\* Mutant: the fetched rows are returned but not stored.
Put_NoStore(c, key, raw_data, now) == c

\* line 49: self._cache[cache_key] = (raw_data, current_time)
Put(c, key, raw_data, now) ==
    [k \in DOMAIN c \cup {key} |->
        IF k = key THEN [rows |-> raw_data, ts |-> now] ELSE c[k]]

\* str(KeyError(cache_key)) is repr(cache_key)
\* A variant of the except block that drops the entry when it re-raises.
StoreAfterFailure_Evict(c, key, error_msg) ==
    IF key \in DOMAIN c /\ ~IsRateLimit(error_msg)
    THEN [k \in DOMAIN c \ {key} |-> c[k]]
    ELSE c

\* lines 51-57: the except block reads self._cache and never assigns to it.
StoreAfterFailure(c, key, error_msg) == c

KeyErrorOf(key) == [type |-> "KeyError", msg |-> <<"'">> \o key \o <<"'">>]

EmptyCache == << >>

Key(t) == CacheKey(spreadsheet_id[t], worksheet_name[t])

AllIdle == \A t \in Threads : pc[t] = "idle"

(***************************************************************************)
(* Initial state: SheetsCacheService(ttl_seconds=30), no request running.  *)
(***************************************************************************)
\* How a call of a cached read ends: the cache it leaves, "returned" with
\* rows or "raised" with an exception, and the Fetcher calls it made.
Outcome(c, st, rows, e, calls) ==
    [cache |-> c, status |-> st, ret |-> rows, err |-> e, fetch_calls |-> calls]

NoOutcome == Outcome(EmptyCache, "none", NoRows, NoError, 0)

InitCommon ==
    /\ cache = EmptyCache
    /\ clock = 0
    /\ ticks = 0
    /\ pc = [t \in Threads |-> "idle"]
    /\ spreadsheet_id = [t \in Threads |-> NoString]
    /\ worksheet_name = [t \in Threads |-> NoString]
    /\ force_refresh = [t \in Threads |-> FALSE]
    /\ current_time = [t \in Threads |-> 0]
    /\ fetch_calls = [t \in Threads |-> 0]
    /\ fetched = [t \in Threads |-> NotFetched]
    /\ status = [t \in Threads |-> "none"]
    /\ ret = [t \in Threads |-> NoRows]
    /\ err = [t \in Threads |-> NoError]
    /\ storeBefore = EmptyCache
    /\ prevFallback = [t \in Threads |-> "no"]
    /\ lastFallback = EmptyCache
    /\ writer = EmptyCache
    /\ observed = [t \in Threads |-> "none"]
    /\ admin_cache = EmptyCache
    /\ admin_out = NoOutcome
    /\ served = EmptyCache
    /\ servedBefore = EmptyCache

(***************************************************************************)
(* Field extraction: cell values, rows and the two lookup helpers          *)
(* (get_field_value of the heatmap handlers, get_value of                  *)
(* process_bmkg_data).                                                     *)
(***************************************************************************)
\* Floats are fixed-point numbers: n counts thousandths.
Scale == 1000

\* A cell value or a result: None, a str, an int or a float.
None == [t |-> "none", s |-> <<>>, n |-> 0]

PyStr(chars) == [t |-> "str", s |-> chars, n |-> 0]

PyInt(i) == [t |-> "int", s |-> <<>>, n |-> i * Scale]

PyFloat(thousandths) == [t |-> "float", s |-> <<>>, n |-> thousandths]

\* Python truthiness of a value: None, "", 0 and 0.0 are false.
Truthy(value) ==
    CASE value.t = "none" -> FALSE
      [] value.t = "str" -> value.s # <<>>
      [] OTHER -> value.n # 0

\* str.lower(), on ASCII letters.
ToLower == [A |-> "a", B |-> "b", C |-> "c", D |-> "d", E |-> "e", F |-> "f",
            G |-> "g", H |-> "h", I |-> "i", J |-> "j", K |-> "k", L |-> "l",
            M |-> "m", N |-> "n", O |-> "o", P |-> "p", Q |-> "q", R |-> "r",
            S |-> "s", T |-> "t", U |-> "u", V |-> "v", W |-> "w", X |-> "x",
            Y |-> "y", Z |-> "z"]

LowerChar(ch) == IF ch \in DOMAIN ToLower THEN ToLower[ch] ELSE ch

Lower(chars) == [i \in 1..Len(chars) |-> LowerChar(chars[i])]

\* str.upper(), on ASCII letters.
ToUpper == [a |-> "A", b |-> "B", c |-> "C", d |-> "D", e |-> "E", f |-> "F",
            g |-> "G", h |-> "H", i |-> "I", j |-> "J", k |-> "K", l |-> "L",
            m |-> "M", n |-> "N", o |-> "O", p |-> "P", q |-> "Q", r |-> "R",
            s |-> "S", t |-> "T", u |-> "U", v |-> "V", w |-> "W", x |-> "X",
            y |-> "Y", z |-> "Z"]

UpperChar(ch) == IF ch \in DOMAIN ToUpper THEN ToUpper[ch] ELSE ch

Upper(chars) == [i \in 1..Len(chars) |-> UpperChar(chars[i])]

\* str.strip(): drop leading and trailing blanks.
RECURSIVE StripLeft(_)
StripLeft(chars) ==
    IF chars # <<>> /\ Head(chars) = " " THEN StripLeft(Tail(chars)) ELSE chars

RECURSIVE StripRight(_)
StripRight(chars) ==
    IF chars # <<>> /\ chars[Len(chars)] = " "
    THEN StripRight(SubSeq(chars, 1, Len(chars) - 1))
    ELSE chars

Strip(chars) == StripRight(StripLeft(chars))

\* str.replace(old, new) for a one-character `old`.
RECURSIVE Replace(_, _, _)
Replace(chars, old, new) ==
    IF chars = <<>> THEN <<>>
    ELSE (IF Head(chars) = old THEN new ELSE <<Head(chars)>>)
         \o Replace(Tail(chars), old, new)

Digits == [i \in 0..9 |-> <<"0", "1", "2", "3", "4", "5", "6", "7", "8", "9">>[i + 1]]

IsDigit(ch) == \E d \in 0..9 : Digits[d] = ch

DigitValue(ch) == CHOOSE d \in 0..9 : Digits[d] = ch

RECURSIVE DigitsValue(_)
DigitsValue(chars) ==
    IF chars = <<>> THEN 0
    ELSE 10 * DigitsValue(SubSeq(chars, 1, Len(chars) - 1))
         + DigitValue(chars[Len(chars)])

\* float(str): blanks around the literal are ignored; an optional sign, then
\* digits with at most one "." and at least one digit.  Exponents, "inf",
\* "nan" and "_" separators do not occur in the cells enumerated here.
Unsigned(chars) ==
    IF chars # <<>> /\ Head(chars) \in {"-", "+"} THEN Tail(chars) ELSE chars

DotPositions(chars) == {i \in 1..Len(chars) : chars[i] = "."}

FloatOk(chars) ==
    LET u == Unsigned(Strip(chars)) IN
        /\ \A i \in 1..Len(u) : IsDigit(u[i]) \/ u[i] = "."
        /\ Cardinality(DotPositions(u)) <= 1
        /\ \E i \in 1..Len(u) : IsDigit(u[i])

\* The value float(str) returns, in thousandths (digits past the third
\* decimal are dropped).
FloatValue(chars) ==
    LET st == Strip(chars)
        u == Unsigned(st)
        dots == DotPositions(u)
        dot == IF dots = {} THEN Len(u) + 1 ELSE CHOOSE i \in dots : TRUE
        whole == SubSeq(u, 1, dot - 1)
        frac == SubSeq(u, dot + 1, Len(u))
        frac3 == SubSeq(frac \o <<"0", "0", "0">>, 1, 3)
        magnitude == DigitsValue(whole) * Scale + DigitsValue(frac3)
    IN IF st # <<>> /\ Head(st) = "-" THEN 0 - magnitude ELSE magnitude

\* A row is a dict: a list of (column, cell) pairs in insertion order.
ColumnOf(pair) == pair[1]

CellOf(pair) == pair[2]

\* A variant of the comparison that is case-sensitive.
KeyMatches_CaseSensitive(key, variant) == key = variant

\* `str(key).lower() == variant.lower()`
KeyMatches(key, variant) == Lower(key) = Lower(variant)

\* The inner loop `for key in record.keys()`: the index of the first column,
\* from position i on, that matches the variant; 0 when none does.
RECURSIVE FirstKey(_, _, _)
FirstKey(rec, variant, i) ==
    IF i > Len(rec) THEN 0
    ELSE IF KeyMatches(ColumnOf(rec[i]), variant) THEN i
    ELSE FirstKey(rec, variant, i + 1)

\* get_field_value, what it returns for a matched cell: a str is converted
\* with float() unless it is blank; a str float() rejects is returned as it
\* is; a blank str and None give the default.
FieldConvert(value, default) ==
    IF value.t = "str"
    THEN IF Strip(value.s) # <<>>
         THEN IF FloatOk(value.s) THEN PyFloat(FloatValue(value.s))
              ELSE IF Truthy(value) THEN value ELSE default
         ELSE default
    ELSE IF value.t # "none" THEN value ELSE default

\* A variant of get_field_value with the two loops exchanged: columns in the
\* outer loop, variants in the inner one.
RECURSIVE GetFieldValue_KeyOrderFrom(_, _, _, _)
GetFieldValue_KeyOrderFrom(rec, variants, default, i) ==
    IF i > Len(rec) THEN default
    ELSE IF \E j \in 1..Len(variants) : KeyMatches(ColumnOf(rec[i]), variants[j])
    THEN FieldConvert(CellOf(rec[i]), default)
    ELSE GetFieldValue_KeyOrderFrom(rec, variants, default, i + 1)

GetFieldValue_KeyOrder(rec, variants, default) ==
    GetFieldValue_KeyOrderFrom(rec, variants, default, 1)

\* get_field_value: variants in the outer loop, columns in the inner loop,
\* return at the first match.
RECURSIVE GetFieldValueFrom(_, _, _, _)
GetFieldValueFrom(rec, variants, default, j) ==
    IF j > Len(variants) THEN default
    ELSE LET i == FirstKey(rec, variants[j], 1) IN
         IF i # 0 THEN FieldConvert(CellOf(rec[i]), default)
         ELSE GetFieldValueFrom(rec, variants, default, j + 1)

GetFieldValue(rec, variants, default) ==
    GetFieldValueFrom(rec, variants, default, 1)

\* get_value, what it returns for a matched cell: "," in a str becomes ".",
\* a false value gives the default, anything else goes through float(), and
\* a str float() rejects is returned as it is.
ValueConvert(value, default) ==
    LET v == IF value.t = "str" /\ Contains(<<",">>, value.s)
             THEN PyStr(Replace(value.s, ",", <<".">>))
             ELSE value
    IN IF ~Truthy(v) THEN default
       ELSE IF v.t = "str"
            THEN IF FloatOk(v.s) THEN PyFloat(FloatValue(v.s)) ELSE v
            ELSE PyFloat(v.n)

\* get_value: the same two loops as get_field_value.
RECURSIVE GetValueFrom(_, _, _, _)
GetValueFrom(raw_data, key_variants, default, j) ==
    IF j > Len(key_variants) THEN default
    ELSE LET i == FirstKey(raw_data, key_variants[j], 1) IN
         IF i # 0 THEN ValueConvert(CellOf(raw_data[i]), default)
         ELSE GetValueFrom(raw_data, key_variants, default, j + 1)

GetValue(raw_data, key_variants, default) ==
    GetValueFrom(raw_data, key_variants, default, 1)

(***************************************************************************)
(* parse_numeric of process_bmkg_data.                                     *)
(***************************************************************************)
\* An exception leaving a call, as a result.
Raised(type) == [t |-> "raise", s |-> <<type>>, n |-> 0]

\* float(str): the number, or ValueError.
FloatOfStr(chars) ==
    IF FloatOk(chars) THEN PyFloat(FloatValue(chars)) ELSE Raised("ValueError")

\* The int/float branch (lines 158-170): a value above expected_max is
\* divided by 100, then by 10, and the first quotient within expected_max
\* is returned; otherwise the value itself.  (Quotients are exact for the
\* values enumerated here, which have at most one decimal.)
CorrectMagnitude(num_value, max) ==
    IF num_value > max
    THEN LET corrected_100 == num_value \div 100
             corrected_10 == num_value \div 10
         IN IF corrected_100 <= max THEN corrected_100
            ELSE IF corrected_10 <= max THEN corrected_10
            ELSE num_value
    ELSE num_value

\* A variant of the separator rule that always reads "," as the decimal
\* separator (what get_value does).
NormalizeSeparators_AlwaysDecimal(chars) ==
    IF Contains(<<",">>, chars) THEN Replace(chars, ",", <<".">>) ELSE chars

\* Lines 175-181: "," without "." is the decimal separator; with "." it is a
\* thousands separator and is removed.
NormalizeSeparators(chars) ==
    IF Contains(<<",">>, chars) /\ ~Contains(<<".">>, chars)
    THEN Replace(chars, ",", <<".">>)
    ELSE IF Contains(<<",">>, chars) /\ Contains(<<".">>, chars)
    THEN Replace(chars, ",", <<>>)
    ELSE chars

\* Lines 172-185: the str branch; `except ValueError` turns the failure of
\* float() into None.
ParseNumericStr(chars) ==
    LET outcome == FloatOfStr(NormalizeSeparators(Strip(chars))) IN
        IF outcome = Raised("ValueError") THEN None ELSE outcome

\* parse_numeric(value, expected_max).
ParseNumeric(value, max) ==
    CASE value.t = "none" -> None
      [] value.t \in {"int", "float"} -> PyFloat(CorrectMagnitude(value.n, max))
      [] value.t = "str" -> ParseNumericStr(value.s)
      [] OTHER -> None

\* The rows, variant lists and defaults the lookups are exercised on.
MaxFields == 2

KeyLat == <<"L", "a", "t">>

KeyLatLower == <<"l", "a", "t">>

KeyLatitudeUpper == <<"L", "A", "T", "I", "T", "U", "D", "E">>

KeyKota == <<"K", "o", "t", "a">>

VariantLatitude == <<"L", "a", "t", "i", "t", "u", "d", "e">>

Columns == {KeyLat, KeyLatLower, KeyLatitudeUpper, KeyKota}

Cells == { PyStr(<<"1", ".", "2">>), PyStr(<<"3", ".", "4">>),
           PyStr(<<"1", ",", "2">>), PyStr(<<"n", "o", "r", "t", "h">>),
           PyStr(<<>>), PyStr(<<" ">>), None, PyInt(0) }

Rows ==
    { rec \in UNION { [1..n -> Columns \X Cells] : n \in 1..MaxFields } :
        \A i, k \in 1..Len(rec) : i # k => ColumnOf(rec[i]) # ColumnOf(rec[k]) }

VariantLists == { <<VariantLatitude, KeyLatLower>>,
                  <<KeyLatLower, VariantLatitude>> }

Unknown == PyStr(<<"U", "N", "K", "N", "O", "W", "N">>)

Defaults == {None, Unknown}

NotExtracted == [fn |-> "none", result |-> None]

\* In the cache specifications the lookups stay unused.
NoFields ==
    /\ record = <<>>
    /\ field_variants = <<>>
    /\ default_value = None
    /\ extracted = NotExtracted
    /\ parse_input = None
    /\ expected_max = 0

Init == InitCommon /\ serial = TRUE /\ NoFields

InitConc == InitCommon /\ serial = FALSE /\ NoFields

(***************************************************************************)
(* get_cached_data, split where another thread can run in between.         *)
(***************************************************************************)
\* lines 36-39: build the key, read the clock, test `key in self._cache`.
\* When the test fails the Fetcher is called (line 45).
Call(t, sid, ws, force) ==
    /\ pc[t] = "idle"
    /\ serial => (AllIdle /\ t = MainThread)
    /\ ~serial => sid \in ConcSpreadsheetIds
    /\ spreadsheet_id' = [spreadsheet_id EXCEPT ![t] = sid]
    /\ worksheet_name' = [worksheet_name EXCEPT ![t] = ws]
    /\ force_refresh' = [force_refresh EXCEPT ![t] = force]
    /\ current_time' = [current_time EXCEPT ![t] = clock]
    /\ storeBefore' = IF serial THEN cache ELSE EmptyCache
    /\ LET key == CacheKey(sid, ws) IN
         /\ prevFallback' = [prevFallback EXCEPT ![t] =
                IF key \in DOMAIN lastFallback THEN lastFallback[key] ELSE "no"]
         /\ lastFallback' = [k \in DOMAIN lastFallback \ {key} |-> lastFallback[k]]
         /\ IF UseCache(force, cache, key)
            THEN /\ pc' = [pc EXCEPT ![t] = "line40"]
                 /\ fetch_calls' = [fetch_calls EXCEPT ![t] = 0]
            ELSE /\ pc' = [pc EXCEPT ![t] = "inflight"]
                 /\ fetch_calls' = [fetch_calls EXCEPT ![t] = 1]
         /\ observed' = [observed EXCEPT ![t] =
                IF force THEN "none"
                ELSE IF key \in DOMAIN cache THEN "found" ELSE "miss"]
    /\ UNCHANGED <<cache, clock, ticks, serial, fetched, status, ret, err,
                   writer>>
    /\ UNCHANGED fieldVars
    /\ UNCHANGED handlerVars

\* lines 40-42: read the entry; return it when fresh, else go on to line 45.
ReadEntry(t) ==
    /\ pc[t] = "line40"
    /\ IF Key(t) \notin DOMAIN cache
       THEN /\ pc' = [pc EXCEPT ![t] = "done"]
            /\ status' = [status EXCEPT ![t] = "raised"]
            /\ err' = [err EXCEPT ![t] = KeyErrorOf(Key(t))]
            /\ observed' = [observed EXCEPT ![t] = "gone"]
            /\ UNCHANGED <<ret, fetch_calls>>
       ELSE /\ observed' = [observed EXCEPT ![t] =
                 IF current_time[t] - cache[Key(t)].ts < 30
                 THEN "fresh" ELSE "stale"]
            /\ IF IsFresh(current_time[t], cache[Key(t)].ts)
               THEN /\ pc' = [pc EXCEPT ![t] = "done"]
                    /\ status' = [status EXCEPT ![t] = "returned"]
                    /\ ret' = [ret EXCEPT ![t] = cache[Key(t)].rows]
                    /\ UNCHANGED <<err, fetch_calls>>
               ELSE /\ pc' = [pc EXCEPT ![t] = "inflight"]
                    /\ fetch_calls' =
                         [fetch_calls EXCEPT ![t] = fetch_calls[t] + 1]
                    /\ UNCHANGED <<status, ret, err>>
    /\ UNCHANGED <<cache, clock, ticks, serial, spreadsheet_id, worksheet_name,
                   force_refresh, current_time, fetched, storeBefore,
                   prevFallback, lastFallback, writer>>
    /\ UNCHANGED fieldVars
    /\ UNCHANGED handlerVars

\* lines 45-50: the Fetcher answers raw_data; store it and return it.
FetchOk(t, raw_data) ==
    /\ pc[t] = "inflight"
    /\ cache' = Put(cache, Key(t), raw_data, current_time[t])
    /\ pc' = [pc EXCEPT ![t] = "done"]
    /\ fetched' = [fetched EXCEPT ![t] = FetchedRows(raw_data)]
    /\ status' = [status EXCEPT ![t] = "returned"]
    /\ ret' = [ret EXCEPT ![t] = raw_data]
    /\ writer' = IF ~serial THEN writer ELSE
                  [k \in DOMAIN writer \cup {Key(t)} |->
                    IF k = Key(t) THEN <<spreadsheet_id[t], worksheet_name[t]>>
                    ELSE writer[k]]
    /\ UNCHANGED <<clock, ticks, serial, spreadsheet_id, worksheet_name,
                   force_refresh, current_time, fetch_calls, err, storeBefore,
                   prevFallback, lastFallback, observed>>
    /\ UNCHANGED fieldVars
    /\ UNCHANGED handlerVars

\* lines 51-54, 57: the Fetcher raises e; fall back (line 55) or re-raise.
FetchFail(t, e) ==
    /\ pc[t] = "inflight"
    /\ fetched' = [fetched EXCEPT ![t] = FetchedError(e)]
    /\ cache' = StoreAfterFailure(cache, Key(t), e.msg)
    /\ LET next == OnFailure(cache, Key(t), e.msg) IN
         IF next = "line55"
         THEN /\ pc' = [pc EXCEPT ![t] = "line55"]
              /\ UNCHANGED <<status, err, fetch_calls>>
         ELSE IF next = "raise"
         THEN /\ pc' = [pc EXCEPT ![t] = "done"]
              /\ status' = [status EXCEPT ![t] = "raised"]
              /\ err' = [err EXCEPT ![t] = e]
              /\ UNCHANGED fetch_calls
         ELSE /\ pc' = [pc EXCEPT ![t] = "inflight"]
              /\ fetch_calls' = [fetch_calls EXCEPT ![t] = fetch_calls[t] + 1]
              /\ UNCHANGED <<status, err>>
    /\ UNCHANGED <<clock, ticks, serial, spreadsheet_id, worksheet_name,
                   force_refresh, current_time, ret, storeBefore,
                   prevFallback, lastFallback, writer, observed>>
    /\ UNCHANGED fieldVars
    /\ UNCHANGED handlerVars

\* lines 55-56: cached_data, _ = self._cache[cache_key]; return cached_data
Fallback(t) ==
    /\ pc[t] = "line55"
    /\ pc' = [pc EXCEPT ![t] = "done"]
    /\ IF Key(t) \in DOMAIN cache
       THEN /\ status' = [status EXCEPT ![t] = "returned"]
            /\ ret' = [ret EXCEPT ![t] = cache[Key(t)].rows]
            /\ lastFallback' =
                 IF ~serial THEN lastFallback ELSE
                 [k \in DOMAIN lastFallback \cup {Key(t)} |->
                    IF k = Key(t)
                    THEN (IF current_time[t] - cache[Key(t)].ts < 30
                          THEN "fresh" ELSE "stale")
                    ELSE lastFallback[k]]
            /\ UNCHANGED err
       ELSE /\ status' = [status EXCEPT ![t] = "raised"]
            /\ err' = [err EXCEPT ![t] = KeyErrorOf(Key(t))]
            /\ UNCHANGED <<ret, lastFallback>>
    /\ UNCHANGED <<cache, clock, ticks, serial, spreadsheet_id, worksheet_name,
                   force_refresh, current_time, fetch_calls, fetched,
                   storeBefore, prevFallback, writer, observed>>
    /\ UNCHANGED fieldVars
    /\ UNCHANGED handlerVars

\* The caller has its answer; the thread is free for the next request.
Return(t) ==
    /\ pc[t] = "done"
    /\ pc' = [pc EXCEPT ![t] = "idle"]
    /\ spreadsheet_id' = [spreadsheet_id EXCEPT ![t] = NoString]
    /\ worksheet_name' = [worksheet_name EXCEPT ![t] = NoString]
    /\ force_refresh' = [force_refresh EXCEPT ![t] = FALSE]
    /\ current_time' = [current_time EXCEPT ![t] = 0]
    /\ fetch_calls' = [fetch_calls EXCEPT ![t] = 0]
    /\ fetched' = [fetched EXCEPT ![t] = NotFetched]
    /\ status' = [status EXCEPT ![t] = "none"]
    /\ ret' = [ret EXCEPT ![t] = NoRows]
    /\ err' = [err EXCEPT ![t] = NoError]
    /\ prevFallback' = [prevFallback EXCEPT ![t] = "no"]
    /\ observed' = [observed EXCEPT ![t] = "none"]
    /\ storeBefore' = EmptyCache
    /\ UNCHANGED <<cache, clock, ticks, serial, lastFallback, writer>>
    /\ UNCHANGED fieldVars
    /\ UNCHANGED handlerVars

\* clear_cache, line 61: self._cache.clear()
ClearCache ==
    /\ serial => AllIdle
    /\ cache # EmptyCache
    /\ cache' = EmptyCache
    /\ writer' = EmptyCache
    /\ UNCHANGED <<clock, ticks, serial, pc, spreadsheet_id, worksheet_name,
                   force_refresh, current_time, fetch_calls, fetched, status,
                   ret, err, storeBefore, prevFallback, lastFallback,
                   observed>>
    /\ UNCHANGED fieldVars
    /\ UNCHANGED handlerVars

\* Time passes (time.time() is taken to be non-decreasing).
Tick ==
    /\ ticks < MaxTicks
    /\ ticks' = ticks + 1
    /\ clock' = clock + TickStep(ticks)
    /\ UNCHANGED <<cache, serial, pc, spreadsheet_id, worksheet_name,
                   force_refresh, current_time, fetch_calls, fetched, status,
                   ret, err, storeBefore, prevFallback, lastFallback, writer,
                   observed>>
    /\ UNCHANGED fieldVars
    /\ UNCHANGED handlerVars

Next ==
    \/ \E t \in Threads, sid \in SpreadsheetIds, ws \in WorksheetNames,
          force \in BOOLEAN : Call(t, sid, ws, force)
    \/ \E t \in Threads : ReadEntry(t)
    \/ \E t \in Threads, raw_data \in SheetRows : FetchOk(t, raw_data)
    \/ \E t \in Threads, e \in FetcherErrors : FetchFail(t, e)
    \/ \E t \in Threads : Fallback(t)
    \/ \E t \in Threads : Return(t)
    \/ ClearCache
    \/ Tick

\* Invocations one at a time (the contract of read_through).
Spec == Init /\ [][Next]_vars

\* Invocations of concurrent request threads, interleaved.
SpecConc == InitConc /\ [][Next]_vars

\* What the interpreter guarantees: a thread that can run its next line of
\* get_cached_data does run it. Nothing is guaranteed about the Fetcher:
\* lines 74-79 of read_from_google_sheets pass no timeout to gspread, so
\* FetchOk and FetchFail happen only if the upstream answers.
Fairness ==
    \A t \in Threads :
        /\ WF_vars(ReadEntry(t))
        /\ WF_vars(Fallback(t))
        /\ WF_vars(Return(t))

SpecLive == Init /\ [][Next]_vars /\ Fairness

(***************************************************************************)
(* The lookups as a specification of their own: Init draws a row, a        *)
(* variant list and a default, and each action applies one lookup.         *)
(***************************************************************************)
InitFields ==
    /\ InitCommon
    /\ serial = TRUE
    /\ record \in Rows
    /\ field_variants \in VariantLists
    /\ default_value \in Defaults
    /\ extracted = NotExtracted
    /\ parse_input = None
    /\ expected_max = 0

CallGetFieldValue ==
    /\ extracted.fn = "none"
    /\ extracted' = [fn |-> "get_field_value",
                     result |-> GetFieldValue(record, field_variants, default_value)]
    /\ UNCHANGED <<record, field_variants, default_value, parse_input,
                   expected_max>>
    /\ UNCHANGED cacheVars
    /\ UNCHANGED handlerVars

CallGetValue ==
    /\ extracted.fn = "none"
    /\ extracted' = [fn |-> "get_value",
                     result |-> GetValue(record, field_variants, default_value)]
    /\ UNCHANGED <<record, field_variants, default_value, parse_input,
                   expected_max>>
    /\ UNCHANGED cacheVars
    /\ UNCHANGED handlerVars

NextFields == CallGetFieldValue \/ CallGetValue

SpecFields == InitFields /\ [][NextFields]_vars

(***************************************************************************)
(* parse_numeric and the PM entries of process_bmkg_data as a              *)
(* specification: Init draws a cell, a bound and the column holding the    *)
(* cell; each action applies one function.                                 *)
(***************************************************************************)
\* Numbers as gspread delivers them (int or float), in thousandths.
NumberCells ==
    { PyInt(0), PyInt(7), PyInt(500), PyInt(501), PyInt(5682), PyInt(50000),
      PyInt(50001), PyInt(999999), PyInt(0 - 7), PyInt(0 - 5682),
      PyFloat(56800), PyFloat(5682500), PyFloat(0 - 56800) }

TextCells ==
    { PyStr(<<"5", "6", ",", "8", "2">>),
      PyStr(<<" ", "5", "6", ".", "8", "2", " ">>),
      PyStr(<<"1", ",", "2", "3", "4", ".", "5", "6">>),
      PyStr(<<"1", ",", "2", "3", "4", ",", "5", "6", "7", ".", "8">>),
      PyStr(<<"-", "5", ",", "5">>),
      PyStr(<<"5", "6", "8", "2">>),
      PyStr(<<"1", ",", "2", ",", "3">>),
      PyStr(<<"1", ".", "2", ".", "3">>),
      PyStr(<<"n", "o", "r", "t", "h">>),
      PyStr(<<",">>), PyStr(<<"-">>), PyStr(<<" ">>), PyStr(<<>>) }

NumericInputs == NumberCells \cup TextCells \cup {None}

\* expected_max of the calls in process_bmkg_data: 50.0, 500.0 and the
\* default 1000.0.
ExpectedMaxes == {50 * Scale, 500 * Scale, 1000 * Scale}

ColPM10 == <<"P", "M", "1", "0">>

ColPm10Lower == <<"p", "m", "1", "0">>

ColPM25 == <<"P", "M", "2", ".", "5">>

BmkgColumns == {ColPM10, ColPm10Lower, ColPM25}

\* The variant lists of the 'pm25' and 'pm10' entries (lines 191-198).
Pm25Variants ==
    << <<"P", "M", "2", ".", "5", " ", "d", "e", "n", "s", "i", "t", "y">>,
       <<"P", "M", "2", ".", "5", " ", "r", "a", "w">>,
       ColPM25,
       <<"p", "m", "2", "5">>,
       <<"P", "M", "2", "5">>,
       <<"p", "m", "2", ".", "5">>,
       <<"P", "M", " ", "2", ".", "5">>,
       <<"P", "M", "2", ".", "5", " ", "d", "e", "n", "s", "i", "t", "y">> >>

Pm10Variants ==
    << <<"P", "M", "1", "0", " ", "d", "e", "n", "s", "i", "t", "y">>,
       <<"P", "M", "1", "0", " ", "r", "a", "w">>,
       ColPM10,
       ColPm10Lower,
       <<"P", "M", " ", "1", "0">> >>

InitNumeric ==
    /\ InitCommon
    /\ serial = TRUE
    /\ parse_input \in NumericInputs
    /\ expected_max \in ExpectedMaxes
    /\ record \in { << <<col, parse_input>> >> : col \in BmkgColumns }
    /\ field_variants = <<>>
    /\ default_value = None
    /\ extracted = NotExtracted

CallParseNumeric ==
    /\ extracted.fn = "none"
    /\ extracted' = [fn |-> "parse_numeric",
                     result |-> ParseNumeric(parse_input, expected_max)]
    /\ UNCHANGED <<record, field_variants, default_value, parse_input,
                   expected_max>>
    /\ UNCHANGED cacheVars
    /\ UNCHANGED handlerVars

\* processed['pm25'] (lines 191-194).
ProcessPm25 ==
    /\ extracted.fn = "none"
    /\ extracted' = [fn |-> "process_bmkg_data.pm25",
                     result |-> ParseNumeric(GetValue(record, Pm25Variants, None),
                                             500 * Scale)]
    /\ UNCHANGED <<record, field_variants, default_value, parse_input,
                   expected_max>>
    /\ UNCHANGED cacheVars
    /\ UNCHANGED handlerVars

\* processed['pm10'] (lines 196-198).
ProcessPm10 ==
    /\ extracted.fn = "none"
    /\ extracted' = [fn |-> "process_bmkg_data.pm10",
                     result |-> ParseNumeric(GetValue(record, Pm10Variants, None),
                                             1000 * Scale)]
    /\ UNCHANGED <<record, field_variants, default_value, parse_input,
                   expected_max>>
    /\ UNCHANGED cacheVars
    /\ UNCHANGED handlerVars

NextNumeric == CallParseNumeric \/ ProcessPm25 \/ ProcessPm10

SpecNumeric == InitNumeric /\ [][NextNumeric]_vars

(***************************************************************************)
(* The heatmap builder of get_heatmap_data (admin.py 372-457, the same     *)
(* code in weather.py 316-401): one point per row, or the row is skipped.  *)
(***************************************************************************)
\* float(x) for a value that is not None: the number, or ValueError.
ToFloat(value) ==
    CASE value.t \in {"int", "float"} -> PyFloat(value.n)
      [] value.t = "str" -> FloatOfStr(value.s)
      [] OTHER -> Raised("TypeError")

\* `float(x) if x is not None else None`
FloatOrNone(value) == IF value = None THEN None ELSE ToFloat(value)

LatitudeVariants == << <<"L", "a", "t", "i", "t", "u", "d", "e">>,
                    <<"l", "a", "t", "i", "t", "u", "d", "e">>,
                    <<"l", "a", "t">> >>

LongitudeVariants == << <<"L", "o", "n", "g", "i", "t", "u", "d", "e">>,
                     <<"l", "o", "n", "g", "i", "t", "u", "d", "e">>,
                     <<"l", "n", "g">>,
                     <<"l", "o", "n">> >>

HeatPm25Variants == << <<"P", "M", "2", ".", "5">>,
                    <<"p", "m", "2", ".", "5">>,
                    <<"P", "M", "2", "5">>,
                    <<"p", "m", "2", "5">>,
                    <<"P", "M", " ", "2", ".", "5">> >>

HeatPm10Variants == << <<"P", "M", "1", "0">>,
                    <<"p", "m", "1", "0">>,
                    <<"P", "M", " ", "1", "0">> >>

AirQualityVariants ==
    << <<"A", "i", "r", " ", "Q", "u", "a", "l", "i", "t", "y">>,
       <<"a", "i", "r", "_", "q", "u", "a", "l", "i", "t", "y">>,
       <<"A", "i", "r", " ", "Q", "u", "a", "l", "i", "t", "y", " ", "L", "e", "v", "e", "l">>,
       <<"a", "i", "r", "_", "q", "u", "a", "l", "i", "t", "y", "_", "l", "e", "v", "e", "l">> >>

RiskScoreVariants == << <<"R", "i", "s", "k", " ", "S", "c", "o", "r", "e">>,
                     <<"r", "i", "s", "k", "_", "s", "c", "o", "r", "e">>,
                     <<"R", "i", "s", "k">>,
                     <<"r", "i", "s", "k">> >>

TextPoor == <<"P", "O", "O", "R">>

TextUnhealthy == <<"U", "N", "H", "E", "A", "L", "T", "H", "Y">>

TextModerate == <<"M", "O", "D", "E", "R", "A", "T", "E">>

TextGood == <<"G", "O", "O", "D">>

\* Lines 423-431: the level read from the air-quality text.
TextLevel(air_quality) ==
    IF air_quality.t = "str"
    THEN LET air_quality_upper == Upper(air_quality.s) IN
         IF Contains(TextPoor, air_quality_upper)
            \/ Contains(TextUnhealthy, air_quality_upper) THEN "high"
         ELSE IF Contains(TextModerate, air_quality_upper) THEN "moderate"
         ELSE "low"
    ELSE "low"

\* Lines 435-440: the level read from a numeric risk score.
ScoreLevel(risk_score) ==
    IF risk_score.n >= 700 THEN "high"
    ELSE IF risk_score.n >= 400 THEN "moderate"
    ELSE "low"

\* A variant in which the air-quality text, when there is one, decides.
RiskLevel_TextWins(air_quality, risk_score) ==
    IF air_quality.t = "str" THEN TextLevel(air_quality)
    ELSE IF risk_score.t \in {"int", "float"} THEN ScoreLevel(risk_score)
    ELSE "low"

\* Lines 423-440: the text gives a first level, a risk score that is an int
\* or a float then replaces it.
RiskLevel(air_quality, risk_score) ==
    IF risk_score.t \in {"int", "float"} THEN ScoreLevel(risk_score)
    ELSE TextLevel(air_quality)

\* A row that yields no point (`continue`).
Skipped == [built |-> FALSE, lat |-> None, lng |-> None, pm2_5 |-> None,
            pm10 |-> None, risk_score |-> None, risk_level |-> ""]

\* The body of the loop for one row.  Of the point's entries, id, location,
\* air_quality, color and device_id are left out: building them cannot fail.
BuildPoint(rec) ==
    LET latitude == GetFieldValue(rec, LatitudeVariants, None)
        longitude == GetFieldValue(rec, LongitudeVariants, None)
    IN IF latitude = None \/ longitude = None THEN Skipped
       ELSE LET lat == ToFloat(latitude)
                lng == ToFloat(longitude)
            IN IF lat.t = "raise" \/ lng.t = "raise" THEN Skipped
               ELSE LET pm25 == GetFieldValue(rec, HeatPm25Variants, None)
                        pm10 == GetFieldValue(rec, HeatPm10Variants, None)
                        air_quality == GetFieldValue(rec, AirQualityVariants, Unknown)
                        risk_score == GetFieldValue(rec, RiskScoreVariants, PyFloat(0))
                        point == [built |-> TRUE, lat |-> lat, lng |-> lng,
                                  pm2_5 |-> FloatOrNone(pm25),
                                  pm10 |-> FloatOrNone(pm10),
                                  risk_score |-> FloatOrNone(risk_score),
                                  risk_level |-> RiskLevel(air_quality, risk_score)]
                    IN IF \/ point.pm2_5.t = "raise"
                          \/ point.pm10.t = "raise"
                          \/ point.risk_score.t = "raise"
                       THEN Skipped
                       ELSE point

ColLatitude == <<"L", "a", "t", "i", "t", "u", "d", "e">>

ColLongitude == <<"L", "o", "n", "g", "i", "t", "u", "d", "e">>

ColAirQuality == <<"A", "i", "r", " ", "Q", "u", "a", "l", "i", "t", "y">>

ColRiskScore == <<"R", "i", "s", "k", " ", "S", "c", "o", "r", "e">>

\* Each part is a set of rows of zero or one column.
LatitudeParts ==
    { <<>>, << <<ColLatitude, PyStr(<<"1", ".", "2">>)>> >>,
      << <<ColLatitude, PyStr(<<"n", "o", "r", "t", "h">>)>> >> }

AirQualityParts ==
    { <<>> } \cup
    { << <<ColAirQuality, cell>> >> :
        cell \in { PyStr(TextPoor), PyStr(<<"U", "n", "h", "e", "a", "l", "t", "h", "y">>),
                   PyStr(<<"M", "o", "d", "e", "r", "a", "t", "e">>), PyStr(TextGood),
                   PyStr(<<>>), PyInt(5) } }

RiskScoreParts ==
    { <<>> } \cup
    { << <<ColRiskScore, cell>> >> :
        cell \in { PyFloat(800), PyFloat(700), PyFloat(690), PyFloat(400),
                   PyFloat(390), PyInt(1), PyInt(0),
                   PyStr(<<"0", ".", "8">>), PyStr(<<"0", ",", "8">>),
                   PyStr(<<"h", "i", "g", "h">>), PyStr(<<>>), None } }

HeatRows ==
    { lat \o << <<ColLongitude, PyStr(<<"3", ".", "4">>)>> >> \o aq \o risk :
        lat \in LatitudeParts, aq \in AirQualityParts, risk \in RiskScoreParts }

InitHeatmap ==
    /\ InitCommon
    /\ serial = TRUE
    /\ record \in HeatRows
    /\ field_variants = <<>>
    /\ default_value = None
    /\ parse_input = None
    /\ expected_max = 0
    /\ extracted = NotExtracted

AppendPoint ==
    /\ extracted.fn = "none"
    /\ extracted' = [fn |-> "heatmap_point", result |-> BuildPoint(record)]
    /\ UNCHANGED <<record, field_variants, default_value, parse_input,
                   expected_max>>
    /\ UNCHANGED cacheVars
    /\ UNCHANGED handlerVars

NextHeatmap == AppendPoint

SpecHeatmap == InitHeatmap /\ [][NextHeatmap]_vars

(***************************************************************************)
(* The HTTP handlers around the cache (get_spreadsheet_data and the        *)
(* others of admin.py, get_heatmap_data of weather.py): what they answer   *)
(* when the invocation returns or raises.                                  *)
(***************************************************************************)
HTTP_200_OK == 200

HTTP_400_BAD_REQUEST == 400

HTTP_429_TOO_MANY_REQUESTS == 429

HTTP_500_INTERNAL_SERVER_ERROR == 500

\* isinstance(e, ValueError): json.JSONDecodeError derives from ValueError.
IsValueError(type) == type \in {"ValueError", "JSONDecodeError"}

\* admin.py lines 157-173: `except ValueError` comes first, then
\* `except Exception` with the test on str(e).
HandlerStatus(e) ==
    IF IsValueError(e.type) THEN HTTP_400_BAD_REQUEST
    ELSE IF IsRateLimit(e.msg) THEN HTTP_429_TOO_MANY_REQUESTS
    ELSE HTTP_500_INTERNAL_SERVER_ERROR

\* The status of the response to the request thread t serves.
HttpStatus(t) ==
    IF status[t] = "raised" THEN HandlerStatus(err[t]) ELSE HTTP_200_OK

(***************************************************************************)
(* get_cached_data as one step (an invocation run to completion), and the  *)
(* copy of it in admin.py, _get_cached_sheets_data over the module-level   *)
(* _sheets_cache.  `answer` is what the Fetcher answers if it is called.   *)
(***************************************************************************)
FetcherAnswers ==
    {FetchedRows(raw_data) : raw_data \in SheetRows}
        \cup {FetchedError(e) : e \in FetcherErrors}

\* sheets_cache_service.py lines 36-57.
GetCachedData(c, sid, ws, force, now, answer) ==
    LET cache_key == CacheKey(sid, ws) IN
        IF UseCache(force, c, cache_key) /\ IsFresh(now, c[cache_key].ts)
        THEN Outcome(c, "returned", c[cache_key].rows, NoError, 0)
        ELSE IF answer.kind = "ok"
        THEN Outcome(Put(c, cache_key, answer.rows, now), "returned",
                     answer.rows, NoError, 1)
        ELSE LET after == StoreAfterFailure(c, cache_key, answer.e.msg) IN
             IF OnFailure(c, cache_key, answer.e.msg) = "line55"
             THEN Outcome(after, "returned", c[cache_key].rows, NoError, 1)
             ELSE Outcome(after, "raised", NoRows, answer.e, 1)

\* admin.py line 23.
CACHE_TTL_SECONDS == 30

\* admin.py line 66: cache_key = f"{spreadsheet_id}:{worksheet_name}"
AdminCacheKey(sid, ws) == sid \o <<":">> \o ws

\* A variant in which an entry aged exactly CACHE_TTL_SECONDS is still used.
AdminIsFresh_Inclusive(now, cache_timestamp) ==
    now - cache_timestamp <= CACHE_TTL_SECONDS

\* admin.py line 72: current_time - cache_timestamp < CACHE_TTL_SECONDS
AdminIsFresh(now, cache_timestamp) ==
    now - cache_timestamp < CACHE_TTL_SECONDS

\* admin.py lines 62-93 (repeated unchanged at lines 553-584).
AdminGetCachedSheetsData(c, sid, ws, force, now, answer) ==
    LET cache_key == AdminCacheKey(sid, ws) IN
        IF /\ ~force
           /\ cache_key \in DOMAIN c
           /\ AdminIsFresh(now, c[cache_key].ts)
        THEN Outcome(c, "returned", c[cache_key].rows, NoError, 0)
        ELSE IF answer.kind = "ok"
        THEN Outcome([k \in DOMAIN c \cup {cache_key} |->
                         IF k = cache_key
                         THEN [rows |-> answer.rows, ts |-> now]
                         ELSE c[k]],
                     "returned", answer.rows, NoError, 1)
        ELSE IF /\ cache_key \in DOMAIN c
                /\ \/ Contains(<<"4", "2", "9">>, answer.e.msg)
                   \/ Contains(MsgQuota, answer.e.msg)
        THEN Outcome(c, "returned", c[cache_key].rows, NoError, 1)
        ELSE Outcome(c, "raised", NoRows, answer.e, 1)

\* Both functions are given the same call, the same clock value and the same
\* Fetcher answer, each over its own cache.
BothCalled(sid, ws, force, answer) ==
    LET t == MainThread
        out == GetCachedData(cache, sid, ws, force, clock, answer)
    IN /\ cache' = out.cache
       /\ status' = [status EXCEPT ![t] = out.status]
       /\ ret' = [ret EXCEPT ![t] = out.ret]
       /\ err' = [err EXCEPT ![t] = out.err]
       /\ fetch_calls' = [fetch_calls EXCEPT ![t] = out.fetch_calls]
       /\ fetched' = [fetched EXCEPT ![t] =
              IF out.fetch_calls = 0 THEN NotFetched ELSE answer]
       /\ spreadsheet_id' = [spreadsheet_id EXCEPT ![t] = sid]
       /\ worksheet_name' = [worksheet_name EXCEPT ![t] = ws]
       /\ force_refresh' = [force_refresh EXCEPT ![t] = force]
       /\ current_time' = [current_time EXCEPT ![t] = clock]
       /\ storeBefore' = cache
       /\ admin_out' = AdminGetCachedSheetsData(admin_cache, sid, ws, force,
                                                clock, answer)
       /\ admin_cache' = admin_out'.cache
       /\ UNCHANGED <<clock, ticks, serial, pc, prevFallback, lastFallback,
                      writer, observed, served, servedBefore>>
       /\ UNCHANGED fieldVars

\* The worksheet of the calls that drive both functions.
EquivWorksheetNames == { <<"w">> }

NextEquiv ==
    \/ \E sid \in SpreadsheetIds, ws \in EquivWorksheetNames, force \in BOOLEAN,
          answer \in FetcherAnswers : BothCalled(sid, ws, force, answer)
    \/ Tick

SpecEquiv == Init /\ [][NextEquiv]_vars

(***************************************************************************)
(* The /weather/heatmap handler (weather.py 246-435): its cache is a local *)
(* of the handler, so every request starts with an empty one.              *)
(***************************************************************************)
\* weather.py line 299.
HeatmapSpreadsheetId ==
    <<"1", "p", "6", "9", "A", "e", "6", "7", "J", "G", "l", "S", "c", "r",
      "M", "l", "S", "D", "n", "e", "b", "u", "Z", "M", "g", "h", "X", "Y",
      "M", "Y", "7", "I", "y", "k", "i", "T", "1", "g", "Q", "w", "e", "l",
      "l", "o">>

\* weather.py line 265.
WEATHER_CACHE_TTL_SECONDS == 30

\* weather.py lines 267-295, the function nested in the handler.
WeatherGetCachedSheetsData(c, sid, ws, force, now, answer) ==
    LET cache_key == sid \o <<":">> \o ws IN
        IF /\ ~force
           /\ cache_key \in DOMAIN c
           /\ now - c[cache_key].ts < WEATHER_CACHE_TTL_SECONDS
        THEN Outcome(c, "returned", c[cache_key].rows, NoError, 0)
        ELSE IF answer.kind = "ok"
        THEN Outcome([k \in DOMAIN c \cup {cache_key} |->
                         IF k = cache_key
                         THEN [rows |-> answer.rows, ts |-> now]
                         ELSE c[k]],
                     "returned", answer.rows, NoError, 1)
        ELSE IF /\ cache_key \in DOMAIN c
                /\ \/ Contains(<<"4", "2", "9">>, answer.e.msg)
                   \/ Contains(MsgQuota, answer.e.msg)
        THEN Outcome(c, "returned", c[cache_key].rows, NoError, 1)
        ELSE Outcome(c, "raised", NoRows, answer.e, 1)

\* line 264: _sheets_cache: dict = {}
NewLocalCache == EmptyCache

\* One request, from line 264 to the response.  `cache` shows the local
\* dict as the handler leaves it; `served` remembers the rows and the time
\* of the latest request on each worksheet that was answered with rows.
WeatherHeatmapRequest(ws, force, answer) ==
    LET t == MainThread
        out == WeatherGetCachedSheetsData(NewLocalCache, HeatmapSpreadsheetId,
                                          ws, force, clock, answer)
    IN /\ cache' = out.cache
       /\ status' = [status EXCEPT ![t] = out.status]
       /\ ret' = [ret EXCEPT ![t] = out.ret]
       /\ err' = [err EXCEPT ![t] = out.err]
       /\ fetch_calls' = [fetch_calls EXCEPT ![t] = out.fetch_calls]
       /\ fetched' = [fetched EXCEPT ![t] =
              IF out.fetch_calls = 0 THEN NotFetched ELSE answer]
       /\ spreadsheet_id' = [spreadsheet_id EXCEPT ![t] = HeatmapSpreadsheetId]
       /\ worksheet_name' = [worksheet_name EXCEPT ![t] = ws]
       /\ force_refresh' = [force_refresh EXCEPT ![t] = force]
       /\ current_time' = [current_time EXCEPT ![t] = clock]
       /\ servedBefore' = served
       /\ served' =
              IF out.status = "returned"
              THEN [k \in DOMAIN served \cup {ws} |->
                       IF k = ws THEN [rows |-> out.ret, ts |-> clock]
                       ELSE served[k]]
              ELSE served
       /\ UNCHANGED <<clock, ticks, serial, pc, storeBefore, prevFallback,
                      lastFallback, writer, observed, admin_cache, admin_out>>
       /\ UNCHANGED fieldVars

NextWeather ==
    \/ \E ws \in WorksheetNames, force \in BOOLEAN, answer \in FetcherAnswers :
          WeatherHeatmapRequest(ws, force, answer)
    \/ Tick

SpecWeather == Init /\ [][NextWeather]_vars

(***************************************************************************)
(* Properties of read_through (get_cached_data), one invocation at a time. *)
(***************************************************************************)
Done(t) == pc[t] = "done"

\* The key of the invocation had an entry when the invocation began.
HadEntry(t) == Key(t) \in DOMAIN storeBefore

\* The age of that entry at the invocation's now.
AgeBefore(t) == current_time[t] - storeBefore[Key(t)].ts

FetchSucceeded(t) == fetched[t].kind = "ok"

FetchFailed(t) == fetched[t].kind = "failed"

\* The entry the successful fetch of the invocation must leave in the Store.
EntryOfFetch(t) == [rows |-> fetched[t].rows, ts |-> current_time[t]]

\* C1: a non-forced read_through on a key whose entry is younger than 30 s
\* makes no Fetcher call, returns the entry's rows and leaves the entry
\* (rows and fetched_at) as it was.
C1_FreshHit ==
    \A t \in Threads :
        (Done(t) /\ ~force_refresh[t] /\ HadEntry(t) /\ AgeBefore(t) < 30) =>
            /\ fetch_calls[t] = 0
            /\ fetched[t] = NotFetched
            /\ status[t] = "returned"
            /\ ret[t] = storeBefore[Key(t)].rows
            /\ Key(t) \in DOMAIN cache
            /\ cache[Key(t)] = storeBefore[Key(t)]

C1_Witness ==
    \E t \in Threads :
        /\ Done(t) /\ ~force_refresh[t] /\ HadEntry(t) /\ AgeBefore(t) = 29
        /\ status[t] = "returned"

\* C2: when the Fetcher fails with a text that has neither "429" nor
\* "Quota exceeded", read_through raises that very error and returns no
\* rows, whether or not the key has an entry, fresh or stale.
C2_OtherPropagates ==
    \A t \in Threads :
        (Done(t) /\ FetchFailed(t) /\ ~IsRateLimit(fetched[t].e.msg)) =>
            /\ status[t] = "raised"
            /\ err[t] = fetched[t].e
            /\ ret[t] = NoRows

C2_Witness ==
    \E t \in Threads :
        /\ Done(t) /\ FetchFailed(t) /\ ~IsRateLimit(fetched[t].e.msg)
        /\ force_refresh[t] /\ HadEntry(t) /\ AgeBefore(t) < 30
        /\ status[t] = "raised"

\* C3: when the key has an entry and the Fetcher fails RateLimited,
\* read_through returns the entry's rows as a successful result and the
\* Store (the entry's fetched_at included) is what it was before the call.
C3_RateLimitedFallback ==
    \A t \in Threads :
        (Done(t) /\ FetchFailed(t) /\ IsRateLimit(fetched[t].e.msg)
                 /\ HadEntry(t)) =>
            /\ status[t] = "returned"
            /\ err[t] = NoError
            /\ ret[t] = storeBefore[Key(t)].rows
            /\ cache = storeBefore

C3_Witness ==
    \E t \in Threads :
        /\ Done(t) /\ FetchFailed(t) /\ fetched[t].e.msg = MsgQuota
        /\ HadEntry(t) /\ AgeBefore(t) >= 30 /\ ~force_refresh[t]
        /\ status[t] = "returned"

\* C4: when the key has no entry and the Fetcher fails RateLimited,
\* read_through raises the RateLimited error and the key still has no entry.
C4_RateLimitedNoEntry ==
    \A t \in Threads :
        (Done(t) /\ FetchFailed(t) /\ IsRateLimit(fetched[t].e.msg)
                 /\ ~HadEntry(t)) =>
            /\ status[t] = "raised"
            /\ err[t] = fetched[t].e
            /\ Key(t) \notin DOMAIN cache

C4_Witness ==
    \E t \in Threads :
        /\ Done(t) /\ FetchFailed(t) /\ IsRateLimit(fetched[t].e.msg)
        /\ ~HadEntry(t) /\ status[t] = "raised" /\ cache # EmptyCache

\* C5: on a key with no entry read_through makes exactly one Fetcher call;
\* when it answers rows R, R is returned and the Store holds (R, now) for
\* the key, now being the time the invocation read.
C5_MissFetchesOnce ==
    \A t \in Threads :
        (Done(t) /\ ~HadEntry(t)) =>
            /\ fetch_calls[t] = 1
            /\ FetchSucceeded(t) =>
                 /\ status[t] = "returned"
                 /\ ret[t] = fetched[t].rows
                 /\ Key(t) \in DOMAIN cache
                 /\ cache[Key(t)] = EntryOfFetch(t)

C5_Witness ==
    \E t \in Threads :
        /\ Done(t) /\ ~HadEntry(t) /\ FetchSucceeded(t)
        /\ current_time[t] > 0 /\ clock > current_time[t]

\* C6: read_through with force_refresh = true calls the Fetcher whatever
\* the Store holds, and a successful answer R overwrites the entry with
\* (R, now).
C6_ForceRefresh ==
    \A t \in Threads :
        (Done(t) /\ force_refresh[t]) =>
            /\ fetch_calls[t] = 1
            /\ fetched[t] # NotFetched
            /\ FetchSucceeded(t) =>
                 /\ Key(t) \in DOMAIN cache
                 /\ cache[Key(t)] = EntryOfFetch(t)

C6_Witness ==
    \E t \in Threads :
        /\ Done(t) /\ force_refresh[t] /\ HadEntry(t) /\ AgeBefore(t) < 30
        /\ FetchSucceeded(t)
        /\ cache[Key(t)].rows # storeBefore[Key(t)].rows
        /\ cache[Key(t)].ts # storeBefore[Key(t)].ts

\* C7: an entry aged 30 s or more is not fresh: a non-forced read_through
\* calls the Fetcher, and a successful answer replaces rows and fetched_at
\* together.
C7_StrictTtl ==
    \A t \in Threads :
        (Done(t) /\ ~force_refresh[t] /\ HadEntry(t) /\ AgeBefore(t) >= 30) =>
            /\ fetch_calls[t] = 1
            /\ fetched[t] # NotFetched
            /\ FetchSucceeded(t) =>
                 /\ ret[t] = fetched[t].rows
                 /\ Key(t) \in DOMAIN cache
                 /\ cache[Key(t)] = EntryOfFetch(t)

C7_Witness ==
    \E t \in Threads :
        /\ Done(t) /\ ~force_refresh[t] /\ HadEntry(t) /\ AgeBefore(t) = 30
        /\ FetchSucceeded(t)
        /\ cache[Key(t)].rows # storeBefore[Key(t)].rows
        /\ cache[Key(t)].ts # storeBefore[Key(t)].ts

\* C8: rows served from the cache for (spreadsheet_id, worksheet_name) were
\* fetched for that same pair: two different pairs never share an entry.
C8_PairsNeverShareEntry ==
    \A t \in Threads :
        (Done(t) /\ status[t] = "returned" /\ fetch_calls[t] = 0) =>
            /\ Key(t) \in DOMAIN writer
            /\ writer[Key(t)] = <<spreadsheet_id[t], worksheet_name[t]>>

\* C9 as first stated: after an invocation that returned a fallback, the
\* next invocation on the same key calls the Fetcher.
C9_FallbackThenFetch ==
    \A t \in Threads :
        (Done(t) /\ prevFallback[t] \in {"fresh", "stale"}) =>
            fetch_calls[t] = 1

\* C9, amended: after an invocation that returned, as a fallback, an entry
\* aged 30 s or more at that invocation's now, the next invocation on the
\* same key calls the Fetcher (the clock does not run backwards).
C9_StaleFallbackThenFetch ==
    \A t \in Threads :
        (Done(t) /\ prevFallback[t] = "stale") => fetch_calls[t] = 1

C9_Witness ==
    \E t \in Threads :
        /\ Done(t) /\ prevFallback[t] = "stale" /\ ~force_refresh[t]
        /\ HadEntry(t) /\ fetch_calls[t] = 1

(***************************************************************************)
(* Properties of concurrent invocations.                                   *)
(***************************************************************************)
\* C10 as first stated: at most one Fetcher call is in flight for a key.
C10_SingleFlight ==
    \A t, u \in Threads :
        (t # u /\ pc[t] = "inflight" /\ pc[u] = "inflight") => Key(t) # Key(u)

\* C10, amended: fetches are not deduplicated across invocations; each
\* invocation has at most one Fetcher call in flight, and only when it was
\* forced, found no entry, or found the entry aged 30 s or more.
C10_OneFetchPerInvocation ==
    \A t \in Threads :
        /\ fetch_calls[t] <= 1
        /\ pc[t] = "inflight" =>
             /\ fetch_calls[t] = 1
             /\ force_refresh[t] \/ observed[t] \in {"miss", "stale"}

C10_Witness ==
    \E t, u \in Threads :
        /\ t # u /\ pc[t] = "inflight" /\ pc[u] = "inflight"
        /\ Key(t) = Key(u)
        /\ ~force_refresh[t] /\ ~force_refresh[u]

\* C11: with clear_cache running at any point of a concurrent invocation,
\* the invocation sees its entry present or absent as a whole and raises
\* nothing but the exception its own Fetcher call raised.
C11_OnlyFetcherErrors ==
    \A t \in Threads :
        status[t] = "raised" =>
            /\ fetched[t].kind = "failed"
            /\ err[t] = fetched[t].e

\* C12: whenever an entry appears or changes, rows and fetched_at are
\* written together by one successful invocation on that key: the rows are
\* what its Fetcher call answered and fetched_at is the now it read.
C12_PairWrittenTogether ==
    [][\A k \in DOMAIN cache' :
          (k \notin DOMAIN cache \/ cache'[k] # cache[k]) =>
              \E t \in Threads :
                  /\ pc[t] = "inflight" /\ pc'[t] = "done"
                  /\ Key(t) = k
                  /\ fetched'[t].kind = "ok"
                  /\ cache'[k] = [rows |-> fetched'[t].rows,
                                  ts |-> current_time[t]]]_vars

C12_Witness ==
    \E t, u \in Threads :
        /\ t # u /\ Done(t) /\ Done(u) /\ Key(t) = Key(u)
        /\ FetchSucceeded(t) /\ FetchSucceeded(u)
        /\ fetched[t].rows # fetched[u].rows
        /\ current_time[t] < current_time[u]
        /\ Key(t) \in DOMAIN cache
        /\ cache[Key(t)] = EntryOfFetch(t)

\* C13: an invocation calls the Fetcher at most once, whatever the Store
\* holds and whatever the Fetcher answers; a failed fetch is not retried.
C13_SingleAttempt ==
    \A t \in Threads :
        /\ fetch_calls[t] \in {0, 1}
        /\ fetched[t] # NotFetched => fetch_calls[t] = 1

C13_Witness ==
    \E t \in Threads :
        /\ Done(t) /\ FetchFailed(t) /\ fetched[t].e.msg = Msg429
        /\ ~HadEntry(t) /\ fetch_calls[t] = 1 /\ status[t] = "raised"

\* C14: with an entry in the Store, a failed fetch is answered from the
\* cache exactly when str(e) contains "429" or "Quota exceeded", and is
\* re-raised otherwise; the type of the exception plays no part.
C14_TextDecidesFallback ==
    \A t \in Threads :
        (Done(t) /\ FetchFailed(t) /\ HadEntry(t)) =>
            LET msg == fetched[t].e.msg
                limited == \/ Contains(<<"4", "2", "9">>, msg)
                           \/ Contains(<<"Q", "u", "o", "t", "a", " ", "e", "x",
                                         "c", "e", "e", "d", "e", "d">>, msg)
            IN  /\ limited <=> status[t] = "returned"
                /\ ~limited <=> (status[t] = "raised" /\ err[t] = fetched[t].e)

C14_Witness ==
    \E t \in Threads :
        /\ Done(t) /\ FetchFailed(t) /\ HadEntry(t)
        /\ fetched[t].e.type = "JSONDecodeError" /\ status[t] = "returned"

C16_FailureResponses ==
    \A t \in Threads :
        (Done(t) /\ status[t] = "raised" /\ err[t] = fetched[t].e) =>
            HttpStatus(t) = IF \/ Contains(<<"4", "2", "9">>, err[t].msg)
                               \/ Contains(MsgQuota, err[t].msg)
                            THEN 429 ELSE 500

\* C17: every invocation completes: a thread inside get_cached_data, its
\* Fetcher call included, eventually has rows returned or an error raised.
C17_InvocationCompletes ==
    \A t \in Threads : (pc[t] # "idle") ~> (pc[t] = "done")

(***************************************************************************)
(* Field extraction claims.                                                *)
(***************************************************************************)
\* The variants some column of the row matches, and the column the
\* precedence rule picks: the earliest such variant, then the first column
\* in the row's order that matches it.
MatchingVariants(rec, variants) ==
    {j \in 1..Len(variants) :
        \E i \in 1..Len(rec) : Lower(ColumnOf(rec[i])) = Lower(variants[j])}

Least(S) == CHOOSE x \in S : \A y \in S : x <= y

WinningKey(rec, variants) ==
    LET j == Least(MatchingVariants(rec, variants)) IN
        Least({i \in 1..Len(rec) : Lower(ColumnOf(rec[i])) = Lower(variants[j])})

SomeKeyMatches == MatchingVariants(record, field_variants) # {}

MatchedCell == CellOf(record[WinningKey(record, field_variants)])

\* C18: the order of the variant list takes precedence over the order of the
\* row's columns: when some column matches, both lookups return what the
\* first column matching the earliest matching variant holds (converted as
\* the lookup converts a matched cell).
C18_VariantOrderWins ==
    SomeKeyMatches =>
        /\ extracted.fn = "get_field_value" =>
               extracted.result = FieldConvert(MatchedCell, default_value)
        /\ extracted.fn = "get_value" =>
               extracted.result = ValueConvert(MatchedCell, default_value)

\* A row whose first column matches only the second variant and whose second
\* column matches the first variant, with cells that convert to different
\* results: the lookup returned the second column's cell.
C18_Witness ==
    /\ extracted.fn = "get_field_value"
    /\ Len(record) = 2
    /\ Lower(ColumnOf(record[1])) = Lower(field_variants[2])
    /\ Lower(ColumnOf(record[1])) # Lower(field_variants[1])
    /\ Lower(ColumnOf(record[2])) = Lower(field_variants[1])
    /\ FieldConvert(CellOf(record[1]), default_value)
           # FieldConvert(CellOf(record[2]), default_value)
    /\ extracted.result = FieldConvert(CellOf(record[2]), default_value)

\* The call of the example:
\* extract({"Lat": "1.2", "LATITUDE": "3.4"}, ["Latitude", "lat"], None).
C19_ExampleCall ==
    /\ extracted.fn = "get_field_value"
    /\ record = << <<KeyLat, PyStr(<<"1", ".", "2">>)>>,
                   <<KeyLatitudeUpper, PyStr(<<"3", ".", "4">>)>> >>
    /\ field_variants = <<VariantLatitude, KeyLatLower>>
    /\ default_value = None

\* C19 as stated: the example call returns the cell under "Lat", "1.2"
\* (as the text or as the number it converts to).
C19_ReturnsLatCell ==
    C19_ExampleCall =>
        extracted.result \in {PyStr(<<"1", ".", "2">>), PyFloat(1200)}

\* C19 amended: the example call returns the cell under "LATITUDE", which
\* matches the first variant "Latitude" case-insensitively: the number 3.4.
C19_ReturnsLatitudeCell ==
    C19_ExampleCall => extracted.result = PyFloat(3400)

C19_Witness ==
    /\ C19_ExampleCall
    /\ extracted.result = PyFloat(3400)

\* C20: when some column matches, the lookup returns the matched cell even
\* when that cell is 0, "" or null.
C20_FalsyCellReturned ==
    (SomeKeyMatches /\ extracted.fn # "none") =>
        /\ MatchedCell = PyInt(0) => extracted.result \in {PyInt(0), PyFloat(0)}
        /\ MatchedCell = PyStr(<<>>) => extracted.result = PyStr(<<>>)
        /\ MatchedCell = None => extracted.result = None

(***************************************************************************)
(* Numeric coercion claims.                                                *)
(***************************************************************************)
Abs(n) == IF n < 0 THEN 0 - n ELSE n

\* What the text of a number gives: the number, or None when it is not one.
NumberOrNone(chars) ==
    IF FloatOk(chars) THEN PyFloat(FloatValue(chars)) ELSE None

HasComma(chars) == \E i \in 1..Len(chars) : chars[i] = ","

HasDot(chars) == \E i \in 1..Len(chars) : chars[i] = "."

\* The rule for text: trimmed; "," alone is the decimal separator, "," next
\* to "." is a thousands separator and is dropped.
CoercedText(chars) ==
    LET trimmed == Strip(chars) IN
        IF HasComma(trimmed) /\ ~HasDot(trimmed)
        THEN NumberOrNone(Replace(trimmed, ",", <<".">>))
        ELSE IF HasComma(trimmed) /\ HasDot(trimmed)
        THEN NumberOrNone(Replace(trimmed, ",", <<>>))
        ELSE NumberOrNone(trimmed)

\* C21: for a numeric value v, parse_numeric returns v when |v| <=
\* expected_max, else v/100 when |v/100| <= expected_max, else v/10 when
\* |v/10| <= expected_max, else v; for negative v as for positive v.
C21_MagnitudeCorrection ==
    (extracted.fn = "parse_numeric" /\ parse_input.t \in {"int", "float"}) =>
        LET v == parse_input.n IN
            extracted.result =
                PyFloat(IF Abs(v) <= expected_max THEN v
                        ELSE IF Abs(v) <= 100 * expected_max THEN v \div 100
                        ELSE IF Abs(v) <= 10 * expected_max THEN v \div 10
                        ELSE v)

\* C22: parse_numeric never raises on text or on None: None gives None, and
\* text gives the number read by the separator rule, or None when the text
\* is not a number.
C22_TextNeverRaises ==
    (extracted.fn = "parse_numeric" /\ parse_input.t \in {"str", "none"}) =>
        /\ extracted.result.t # "raise"
        /\ parse_input.t = "none" => extracted.result = None
        /\ parse_input.t = "str" => extracted.result = CoercedText(parse_input.s)

\* parse_numeric read "1,234.56" as 1234.56.
C22_Witness ==
    /\ extracted.fn = "parse_numeric"
    /\ parse_input = PyStr(<<"1", ",", "2", "3", "4", ".", "5", "6">>)
    /\ extracted.result = PyFloat(1234560)

\* C26: in process_bmkg_data a PM cell whose text holds both "," and "." is
\* coerced with the commas dropped ("1,234.56" gives 1234.56, not None).
C26_ThousandsSeparatorInPipeline ==
    LET cell == CellOf(record[1])
        column == ColumnOf(record[1])
        both == cell.t = "str" /\ HasComma(cell.s) /\ HasDot(cell.s)
    IN /\ (extracted.fn = "process_bmkg_data.pm10" /\ both
             /\ Lower(column) = Lower(ColPM10)) =>
               extracted.result = CoercedText(cell.s)
       /\ (extracted.fn = "process_bmkg_data.pm25" /\ both
             /\ Lower(column) = Lower(ColPM25)) =>
               extracted.result = CoercedText(cell.s)

(***************************************************************************)
(* Heatmap risk-level claims.                                              *)
(***************************************************************************)
ColumnsNamed(rec, variants) ==
    {i \in 1..Len(rec) :
        \E j \in 1..Len(variants) : Lower(ColumnOf(rec[i])) = Lower(variants[j])}

HasRiskColumn == ColumnsNamed(record, RiskScoreVariants) # {}

RiskCell == CellOf(record[Least(ColumnsNamed(record, RiskScoreVariants))])

\* The row carries a numeric risk score: a number, or the text of one.
CarriesNumericScore ==
    /\ HasRiskColumn
    /\ \/ RiskCell.t \in {"int", "float"}
       \/ RiskCell.t = "str" /\ FloatOk(RiskCell.s)

NumericScore == IF RiskCell.t = "str" THEN FloatValue(RiskCell.s) ELSE RiskCell.n

PointBuilt == extracted.fn = "heatmap_point" /\ extracted.result.built

\* The air-quality text of the row, upper-cased; empty when the row has no
\* air-quality column or the cell is not text.
AirQualityText ==
    LET named == ColumnsNamed(record, AirQualityVariants) IN
        IF named = {} THEN <<>>
        ELSE LET cell == CellOf(record[Least(named)]) IN
             IF cell.t = "str" THEN Upper(cell.s) ELSE <<>>

\* C23: a point built from a row carrying a numeric risk score s has
\* risk_level "high" when s >= 0.7, "moderate" when 0.4 <= s < 0.7 and "low"
\* otherwise, whatever the air-quality text.
C23_ScoreDecidesLevel ==
    (PointBuilt /\ CarriesNumericScore) =>
        extracted.result.risk_level =
            (IF NumericScore >= 700 THEN "high"
             ELSE IF NumericScore >= 400 THEN "moderate"
             ELSE "low")

\* A row saying GOOD with a risk score of 0.8 gave a "high" point.
C23_Witness ==
    /\ PointBuilt
    /\ HasRiskColumn
    /\ AirQualityText = TextGood
    /\ RiskCell = PyFloat(800)
    /\ extracted.result.risk_level = "high"

\* C27: a point built from a row with no risk-score column has the
\* risk_level of its air-quality text: POOR or UNHEALTHY gives "high",
\* MODERATE gives "moderate", anything else "low".
C27_TextLevelWithoutScore ==
    (PointBuilt /\ ~HasRiskColumn) =>
        extracted.result.risk_level =
            (IF Contains(TextPoor, AirQualityText)
                \/ Contains(TextUnhealthy, AirQualityText) THEN "high"
             ELSE IF Contains(TextModerate, AirQualityText) THEN "moderate"
             ELSE "low")

(***************************************************************************)
(* Store frame, ordering of timestamps, age of returned rows.              *)
(***************************************************************************)
\* C24: an invocation whose Fetcher call failed (rate limit or not, entry or
\* no entry) ends with the whole Store as it was when the invocation began.
C24_FailedFetchLeavesStore ==
    \A t \in Threads : (Done(t) /\ FetchFailed(t)) => cache = storeBefore

\* A failure that was re-raised over an existing entry, and the Store kept it.
C24_Witness ==
    \E t \in Threads :
        /\ Done(t) /\ FetchFailed(t) /\ status[t] = "raised"
        /\ Key(t) \in DOMAIN storeBefore
        /\ cache = storeBefore

\* C28: between two clear() operations the fetched_at of a key's entry never
\* decreases, in every interleaving of concurrent invocations.
C28_TimestampNeverDecreases ==
    [][\A k \in DOMAIN cache \cap DOMAIN cache' :
          cache'[k].ts >= cache[k].ts]_vars

\* C29: an invocation that returns without calling the Fetcher returns the
\* rows of an entry younger than 30 s at its now, and rows of an entry aged
\* 30 s or more are returned only by an invocation whose own Fetcher call
\* failed with a rate-limit text.
C29_OldRowsOnlyOnRateLimit ==
    \A t \in Threads :
        (Done(t) /\ status[t] = "returned") =>
            /\ fetch_calls[t] = 0 =>
                   /\ HadEntry(t)
                   /\ AgeBefore(t) < 30
                   /\ ret[t] = storeBefore[Key(t)].rows
            /\ (~FetchSucceeded(t) /\ HadEntry(t) /\ AgeBefore(t) >= 30) =>
                   /\ FetchFailed(t)
                   /\ \/ Contains(<<"4", "2", "9">>, fetched[t].e.msg)
                      \/ Contains(MsgQuota, fetched[t].e.msg)

\* An entry aged exactly 30 s was returned after a 429 failure.
C29_Witness ==
    \E t \in Threads :
        /\ Done(t) /\ status[t] = "returned"
        /\ HadEntry(t) /\ AgeBefore(t) = 30
        /\ FetchFailed(t) /\ fetched[t].e.msg = Msg429
        /\ ret[t] = storeBefore[Key(t)].rows

(***************************************************************************)
(* The admin copy against the service.                                     *)
(***************************************************************************)
\* What the service's latest call left, in the shape of admin_out.
ServiceOut ==
    Outcome(cache, status[MainThread], ret[MainThread], err[MainThread],
            fetch_calls[MainThread])

\* C30: driven by the same calls, clock values and Fetcher answers from
\* empty caches, _get_cached_sheets_data of admin.py and get_cached_data
\* make the same Fetcher calls, return the same rows or raise the same
\* error, and leave equal caches, at every step.
C30_AdminCopyEquivalent ==
    /\ admin_cache = cache
    /\ status[MainThread] # "none" => admin_out = ServiceOut

\* Both fell back to a stale entry on a rate-limit error, and agree.
C30_Witness ==
    /\ admin_out = ServiceOut
    /\ admin_out.status = "returned"
    /\ admin_out.fetch_calls = 1
    /\ fetched[MainThread].kind = "failed"
    /\ current_time[MainThread] - admin_cache[Key(MainThread)].ts >= 30
    /\ Cardinality(DOMAIN admin_cache) >= 2

(***************************************************************************)
(* The /weather/heatmap handler.                                           *)
(***************************************************************************)
\* C25: a /weather/heatmap request with force_refresh false that arrives
\* less than 30 s after an earlier request for the same worksheet was
\* answered with rows makes no Fetcher call and returns those rows, and a
\* rate-limit failure after such an earlier request is answered with those
\* rows.
C25_WeatherHeatmapCached ==
    LET t == MainThread
        ws == worksheet_name[t]
    IN (status[t] # "none" /\ ws \in DOMAIN servedBefore) =>
           /\ (~force_refresh[t] /\ current_time[t] - servedBefore[ws].ts < 30) =>
                  /\ fetch_calls[t] = 0
                  /\ status[t] = "returned"
                  /\ ret[t] = servedBefore[ws].rows
           /\ (fetched[t].kind = "failed" /\ IsRateLimit(fetched[t].e.msg)) =>
                  /\ status[t] = "returned"
                  /\ ret[t] = servedBefore[ws].rows

====
